---- MODULE Spec2Model ----
(***************************************************************************)
(* A model of ccdiff/examples/scene_editor.py: run_scene_editor, the       *)
(* closed-loop evaluation harness (scene-batch loop, simulation-repeat     *)
(* loop, guided rollout, guide-statistics aggregation, stats.json and the  *)
(* HDF5 experience buffer), and dump_episode_buffer.                       *)
(*                                                                         *)
(* Python strings that the code splits, slices or formats are sequences of *)
(* one-character strings. A python reference is a tagged record: None, a   *)
(* name not assigned yet (Unbound), or Obj(v) for an object of value v.    *)
(***************************************************************************)
EXTENDS Integers, Sequences, FiniteSets, TLC

\* ---------------------------------------------------------------- bounds
\* largest eval_cfg.num_scenes_per_batch explored
MaxScenesPerBatch == 2
\* largest eval_cfg.num_sim_per_scene explored
MaxSimPerScene == 2
\* largest eval_cfg.num_scenes_to_evaluate explored
MaxScenesToEvaluate == 2
\* largest batch whose stats are aggregated on their own (SpecAgg)
MaxAggScenes == 11

\* ------------------------------------------------------- program values
None == [tag |-> "None"]
Unbound == [tag |-> "unbound"]
Obj(v) == [tag |-> "obj", val |-> v]
IsNone(x) == x.tag = "None"
IsObj(x) == x.tag = "obj"
\* a path with no file at it, and a file holding content c
NoFile == [exists |-> FALSE]
File(c) == [exists |-> TRUE, content |-> c]
\* exp_config.algo.history_num_frames (read at lines 205 and 210)
HistoryNumFrames == 1
\* eval_cfg.num_simulation_steps (read at line 212)
NumSimulationSteps == 10
\* a numpy nan entry of a stats array (line 360: "all are nan except 1")
NaN == -1

SupportedEnvs == {"nusc", "trajdata"}

Min(a, b) == IF a <= b THEN a ELSE b

\* ------------------------------------------------------ python strings
\* str.split(sep): the tokens between the separators
RECURSIVE SplitFrom(_, _, _, _)
SplitFrom(s, sep, i, cur) ==
    IF i > Len(s) THEN <<cur>>
    ELSE IF s[i] = sep THEN <<cur>> \o SplitFrom(s, sep, i + 1, <<>>)
    ELSE SplitFrom(s, sep, i + 1, Append(cur, s[i]))

Split(s, sep) == SplitFrom(s, sep, 1, <<>>)

\* sep.join(tokens)
RECURSIVE Join(_, _)
Join(tokens, sep) ==
    IF Len(tokens) = 0 THEN <<>>
    ELSE IF Len(tokens) = 1 THEN tokens[1]
    ELSE tokens[1] \o <<sep>> \o Join(Tail(tokens), sep)

\* seq[:n]
Take(s, n) == SubSeq(s, 1, Min(n, Len(s)))

\* seq[:-1]
Front(s) == SubSeq(s, 1, Len(s) - 1)

\* seq[a : a + n] with python's 0-based, clipped slicing
Slice(s, a, n) == SubSeq(s, Min(a, Len(s)) + 1, Min(a + n, Len(s)))

Digit(d) == CASE d = 0 -> "0" [] d = 1 -> "1" [] d = 2 -> "2" [] d = 3 -> "3"
              [] d = 4 -> "4" [] d = 5 -> "5" [] d = 6 -> "6" [] d = 7 -> "7"
              [] d = 8 -> "8" [] d = 9 -> "9"

\* "{}".format(n) of a non-negative int
RECURSIVE Str(_)
Str(n) == IF n < 10 THEN <<Digit(n)>> ELSE Str(n \div 10) \o <<Digit(n % 10)>>

\* the elements of s whose position is marked in keep
RECURSIVE KeepFrom(_, _, _)
KeepFrom(s, keep, i) ==
    IF i > Len(s) THEN <<>>
    ELSE (IF i <= Len(keep) /\ keep[i] THEN <<s[i]>> ELSE <<>>) \o KeepFrom(s, keep, i + 1)

\* [x for x, v in zip(s, keep) if v]
ZipFilter(s, keep) == KeepFrom(s, keep, 1)

NoDuplicates(s) == \A i, j \in 1..Len(s) : s[i] = s[j] => i = j

\* ------------------------------------------------------------ stats keys
KSceneIndex == <<"s","c","e","n","e","_","i","n","d","e","x">>
KAde == <<"a","d","e">>
KGuideA_s0g0 == <<"g","u","i","d","e","_","a","_","s","0","g","0">>
KGuideA_s0g1 == <<"g","u","i","d","e","_","a","_","s","0","g","1">>
KGuideA_s1g0 == <<"g","u","i","d","e","_","a","_","s","1","g","0">>
KGuideBC_s0g1 == <<"g","u","i","d","e","_","b","_","c","_","s","0","g","1">>
KGuided == <<"g","u","i","d","e","d","_","x">>

\* k.split('_')[0] == 'guide'  (line 347)
IsGuideKey(k) == Split(k, "_")[1] = <<"g","u","i","d","e">>

\* '_'.join(k.split('_')[:-1])  (line 348)
GuideName(k) == Join(Front(Split(k, "_")), "_")

\* k.split('_')[-1][:2]  (line 349)
GuideSceneTag(k) == LET toks == Split(k, "_") IN Take(toks[Len(toks)], 2)

\* guide_name + '_%sg0' % (guide_scene_tag)  (line 350)
CanonName(k) == GuideName(k) \o <<"_">> \o GuideSceneTag(k) \o <<"g","0">>

\* the sum of position i of the arrays stats[k], k in ks
RECURSIVE SumAt(_, _, _)
SumAt(stats, ks, i) ==
    IF ks = {} THEN 0
    ELSE LET k == CHOOSE x \in ks : TRUE IN stats[k][i] + SumAt(stats, ks \ {k}, i)

\* np.mean(np.stack(v, axis=0), axis=0) of the arrays stats[k], k in ks: a nan
\* in a column makes the column's mean nan. The model's finite entries are
\* multiples of 6, so the mean of up to three of them is an integer.
MeanAxis0(stats, ks) ==
    LET k0 == CHOOSE x \in ks : TRUE
    IN [i \in 1..Len(stats[k0]) |->
          IF \E k \in ks : stats[k][i] = NaN THEN NaN
          ELSE SumAt(stats, ks, i) \div Cardinality(ks)]

\* a slip of lines 359-361: the first collected array instead of the mean
AggregateGuideStats_first(stats) ==
    LET pop_list == {k \in DOMAIN stats : IsGuideKey(k)}
        canon == {CanonName(k) : k \in pop_list}
    IN [k \in ((DOMAIN stats) \ pop_list) \cup canon |->
          IF k \in canon
          THEN stats[CHOOSE g \in pop_list : CanonName(g) = k]
          ELSE stats[k]]

\* lines 344-355: guide_agg_dict, from canonical name to the guide keys whose
\* arrays are collected under it
GuideAggDict(stats) ==
    LET pop_list == {k \in DOMAIN stats : IsGuideKey(k)}
        canon == {CanonName(k) : k \in pop_list}
    IN [c \in canon |-> {k \in pop_list : CanonName(k) = c}]

\* lines 342-361: collect the guide stats by canonical name, pop them from
\* stats and store the mean of each group under its canonical name
AggregateGuideStats(stats) ==
    LET pop_list == {k \in DOMAIN stats : IsGuideKey(k)}
        canon == {CanonName(k) : k \in pop_list}
        guide_agg_dict == GuideAggDict(stats)
    IN [k \in ((DOMAIN stats) \ pop_list) \cup canon |->
          IF k \in canon THEN MeanAxis0(stats, guide_agg_dict[k]) ELSE stats[k]]

\* a slip of line 372: the batch's array replaces the accumulated one
MergeStats_overwrite(result_stats, stats, scene_index) ==
    IF IsNone(result_stats)
    THEN Obj([k \in (DOMAIN stats) \cup {KSceneIndex} |->
                IF k = KSceneIndex THEN scene_index ELSE stats[k]])
    ELSE LET old == result_stats.val
             merged == [k \in (DOMAIN old) \cup (DOMAIN stats) |->
                          IF k \in DOMAIN stats THEN stats[k] ELSE old[k]]
         IN Obj([merged EXCEPT ![KSceneIndex] = old[KSceneIndex] \o scene_index])

\* lines 363-373: the first rolled-out batch's stats become result_stats;
\* later batches are concatenated key by key, then scene_index is extended
MergeStats(result_stats, stats, scene_index) ==
    IF IsNone(result_stats)
    THEN Obj([k \in (DOMAIN stats) \cup {KSceneIndex} |->
                IF k = KSceneIndex THEN scene_index ELSE stats[k]])
    ELSE LET old == result_stats.val
             merged == [k \in (DOMAIN old) \cup (DOMAIN stats) |->
                          IF k \notin DOMAIN stats THEN old[k]
                          ELSE IF k \notin DOMAIN old THEN stats[k]
                          ELSE old[k] \o stats[k]]
         IN Obj([merged EXCEPT ![KSceneIndex] = merged[KSceneIndex] \o scene_index])

\* ------------------------------------------------------ experience file
\* buffer keys of one scene's episode buffer, in dict order
BufferKeys == << <<"o","b","s">>, <<"a","c","t">> >>

\* "/{}_{}/{}".format(si, ei, mk)  (line 421)
H5Key(si, ei, mk) == <<"/">> \o Str(si) \o <<"_">> \o Str(ei) \o <<"/">> \o mk

\* lines 419-422: the dataset names in creation order;
\* zip stops at the shortest of start_frames, scene_index and buffer
RECURSIVE DumpNames(_, _, _)
DumpNames(start_frames, scene_index, j) ==
    IF j > Min(Len(start_frames), Len(scene_index)) THEN <<>>
    ELSE [m \in 1..Len(BufferKeys) |-> H5Key(scene_index[j], start_frames[j], BufferKeys[m])]
         \o DumpNames(start_frames, scene_index, j + 1)

\* h5_file.create_dataset over names: a name already in the file raises
\* ValueError and leaves the datasets created before it
RECURSIVE CreateDatasets(_, _, _)
CreateDatasets(datasets, names, i) ==
    IF i > Len(names) THEN [datasets |-> datasets, ok |-> TRUE]
    ELSE IF names[i] \in datasets THEN [datasets |-> datasets, ok |-> FALSE]
    ELSE CreateDatasets(datasets \cup {names[i]}, names, i + 1)

\* a slip of lines 76-77: the stale file is kept
RemoveStale_keep(data_to_disk, file) == file

\* lines 76-77: if data_to_disk and os.path.exists(path): os.remove(path)
RemoveStale(data_to_disk, file) ==
    IF data_to_disk /\ file.exists THEN NoFile ELSE file

\* lines 415-423: h5py.File(h5_path, "a") opens or creates the file
DumpEpisodeBuffer(file, start_frames, scene_index) ==
    LET before == IF file.exists THEN file.content ELSE {}
        res == CreateDatasets(before, DumpNames(start_frames, scene_index, 1), 1)
    IN [file |-> File(res.datasets), ok |-> res.ok]

\* ------------------------------------------------------ guidance configs
GuideAC == [name |-> "agent_collision", params |-> [excluded_agents |-> None]]
GuideGPT == [name |-> "gptcollision", params |-> [target_ind |-> 1, ref_ind |-> 2]]

MaxOf(S) == CHOOSE x \in S : \A y \in S : y <= x

\* lines 281-296: in every scene's guidance list that holds both an
\* agent_collision and a gptcollision entry (the last of each), the
\* agent_collision entry's params get excluded_agents = [target_ind, ref_ind]
ExcludeCollisionAgents(gc) ==
    [si \in 1..Len(gc) |->
       LET sc == gc[si]
           ac == {i \in 1..Len(sc) : sc[i].name = "agent_collision"}
           gpt == {i \in 1..Len(sc) : sc[i].name # "agent_collision" /\ sc[i].name = "gptcollision"}
       IN IF ac # {} /\ gpt # {}
          THEN LET ind1 == sc[MaxOf(gpt)].params.target_ind
                   ind2 == sc[MaxOf(gpt)].params.ref_ind
               IN [sc EXCEPT ![MaxOf(ac)].params.excluded_agents = Obj(<<ind1, ind2>>)]
          ELSE sc]

\* merge_guidance_configs (tbsim.utils.scene_edit_utils): an absent or empty
\* config gives the other one; otherwise a copy of cfg1 extended scene by
\* scene with cfg2. is_cfg tells whether the result is the object cfg1.
MergeGuidanceConfigs(cfg1, cfg1_is_cfg, cfg2) ==
    IF IsNone(cfg1) \/ Len(cfg1.val) = 0 THEN [gc |-> Obj(cfg2), is_cfg |-> FALSE]
    ELSE IF Len(cfg2) = 0 THEN [gc |-> cfg1, is_cfg |-> cfg1_is_cfg]
    ELSE [gc |-> Obj([si \in 1..Len(cfg1.val) |->
                        cfg1.val[si] \o (IF si <= Len(cfg2) THEN cfg2[si] ELSE <<>>)]),
          is_cfg |-> FALSE]

\* compute_heuristic_guidance (tbsim.utils.scene_edit_utils): one guidance
\* list per scene, empty where the heuristic finds nothing to apply
HeuristicGuidance(heuristic_config, n) ==
    IF Len(heuristic_config) = 0 THEN {[i \in 1..n |-> <<>>]}
    ELSE [1..n -> {<<>>, <<GuideAC, GuideGPT>>}]

\* ------------------------------------------------------------ the scenes
\* cur_scene.length_timesteps of the recorded scene (line 212)
SceneLength(scene) == 20 + scene

\* np.linspace(sframe, eframe, num=num, dtype=int).tolist()  (line 213)
Linspace(sframe, eframe, num) ==
    [i \in 1..num |->
       IF num = 1 THEN sframe
       ELSE (sframe * (num - 1) + (i - 1) * (eframe - sframe)) \div (num - 1)]

\* lines 204-214: the start frames of every scene of the batch
StartFrameIndex(scenes, num_sim_per_scene) ==
    IF num_sim_per_scene > 1
    THEN [si \in 1..Len(scenes) |->
            Linspace(HistoryNumFrames + 1,
                     SceneLength(scenes[si]) - NumSimulationSteps,
                     num_sim_per_scene)]
    ELSE [si \in 1..Len(scenes) |-> <<HistoryNumFrames + 1>>]

\* a number that tells the model's stats keys apart
KeyWeight(k) == Len(k) + Cardinality({j \in 1..Len(k) : k[j] = "0"})

\* stats arrays returned by guided_rollout for n scenes: one array per key,
\* one entry per scene; with nans, a guide stat of scene tag sN is nan at
\* the other scenes
StatArray(k, n, nans) ==
    [i \in 1..n |->
       IF nans /\ IsGuideKey(k) /\ GuideSceneTag(k) # <<"s">> \o Str(i - 1)
       THEN NaN
       ELSE 6 * (KeyWeight(k) + i)]

RolloutStats(n) ==
    { [k \in {KAde, KGuided} |-> StatArray(k, n, FALSE)],
      [k \in {KAde, KGuideA_s0g0, KGuideA_s0g1, KGuideA_s1g0, KGuideBC_s0g1} |->
          StatArray(k, n, TRUE)] }

\* ------------------------------------------------------------- the state
VARIABLES
    cfg,                \* eval_cfg, the locked configuration object
    data_to_disk,       \* the data_to_disk argument
    info_has_buffer,    \* whether guided_rollout's info carries "buffer"
    pc,                 \* "start", "batch" (167), "sim" (218), "post" (276), "done", "failed"
    err,                \* the exception that ended the run, with its line
    scene_i, scene_indices, start_frame_index, ei,
    sim_scene_indices, sim_start_frames,
    guidance_config,    \* the local guidance_config
    guidance_is_cfg,    \* guidance_config is eval_cfg.edits.guidance_config
    constraint_config, heuristic_config,
    result_stats,
    stats_json,         \* results_dir/stats.json as written by this run
    h5_file,            \* the file at eval_cfg.experience_hdf5_path
    cache_dirty,        \* env.reset or a rollout ran since torch.cuda.empty_cache()
    env_reset,          \* env.reset has been called
    rollouts,           \* the guided_rollout calls made so far, with what they returned
    repeats             \* how many repeats of the current batch reached the end of
                        \* the loop body unskipped

vars == <<cfg, data_to_disk, info_has_buffer, pc, err, scene_i, scene_indices,
          start_frame_index, ei, sim_scene_indices, sim_start_frames,
          guidance_config, guidance_is_cfg, constraint_config, heuristic_config,
          result_stats, stats_json, h5_file, cache_dirty, env_reset, rollouts, repeats>>

NoErr == [kind |-> "none", line |-> 0]

Envs == {"nusc", "trajdata", "l5kit"}

EditingSources == { {"none"}, {"config"}, {"heuristic"}, {"config", "heuristic"},
                    {"ui"}, {"ui", "config"}, {"ui", "heuristic"} }

GuidanceChoices == { Obj(<<>>), Obj(<< <<GuideAC, GuideGPT>>, <<GuideAC>> >>) }

EvalScenes == { <<1, 12, 3, 4>>, <<1, 1, 12, 4>> }

\* a file left at experience_hdf5_path by an earlier run
StaleFile == File({H5Key(1, 2, BufferKeys[1])})

\* the configurations explored; a field the run never reads (under the chosen
\* editing_source, or because the run ends before the eval loop) is left at
\* one value
Configs ==
    { c \in [ env : Envs,
              edits : [ editing_source : EditingSources,
                        guidance_config : GuidanceChoices,
                        constraint_config : {Obj(<<"c">>)},
                        heuristic_config : {None, Obj(<<"h">>)} ],
              num_scenes_per_batch : 1..MaxScenesPerBatch,
              num_sim_per_scene : 0..MaxSimPerScene,
              num_scenes_to_evaluate : 1..MaxScenesToEvaluate,
              eval_scenes : EvalScenes ] :
        /\ "config" \notin c.edits.editing_source => c.edits.guidance_config = Obj(<<>>)
        /\ "heuristic" \notin c.edits.editing_source => IsNone(c.edits.heuristic_config)
        /\ (c.env # "trajdata" \/ "ui" \in c.edits.editing_source) =>
              /\ c.num_scenes_per_batch = 1
              /\ c.num_sim_per_scene = 1
              /\ c.num_scenes_to_evaluate = 1
              /\ c.eval_scenes = <<1, 12, 3, 4>> }

\* the data_to_disk argument, whether info carries "buffer", and the file
\* found at experience_hdf5_path
DiskCases ==
    { <<FALSE, TRUE, NoFile>>, <<TRUE, TRUE, NoFile>>,
      <<TRUE, TRUE, StaleFile>>, <<TRUE, FALSE, NoFile>> }

Init ==
    /\ cfg \in Configs
    /\ \E d \in DiskCases :
         /\ data_to_disk = d[1]
         /\ info_has_buffer = d[2]
         /\ h5_file = d[3]
    /\ pc = "start"
    /\ err = NoErr
    /\ scene_i = 0
    /\ scene_indices = <<>>
    /\ start_frame_index = <<>>
    /\ ei = 0
    /\ sim_scene_indices = Unbound
    /\ sim_start_frames = <<>>
    /\ guidance_config = Unbound
    /\ guidance_is_cfg = FALSE
    /\ constraint_config = Unbound
    /\ heuristic_config = Unbound
    /\ result_stats = Unbound
    /\ stats_json = NoFile
    /\ cache_dirty = FALSE
    /\ env_reset = FALSE
    /\ rollouts = <<>>
    /\ repeats = 0

\* torch.cuda.empty_cache(): nothing is left to clear
EmptyCache_noop(dirty) == dirty

EmptyCache(dirty) == FALSE

\* a slip of lines 133-137: the UI branch does not raise
SetupError_ui(c) ==
    IF c.env \notin SupportedEnvs THEN [kind |-> "AssertionError", line |-> 52]
    ELSE IF c.env # "trajdata" THEN [kind |-> "NotImplementedError", line |-> 126]
    ELSE NoErr

\* lines 52, 122-126, 133-137: the exception raised before the eval loop
SetupError(c) ==
    IF c.env \notin SupportedEnvs THEN [kind |-> "AssertionError", line |-> 52]
    ELSE IF c.env # "trajdata" THEN [kind |-> "NotImplementedError", line |-> 126]
    ELSE IF "ui" \in c.edits.editing_source
         THEN [kind |-> "NotImplementedError", line |-> 137]
    ELSE NoErr

\* lines 50-165: everything before the eval loop
Setup ==
    /\ pc = "start"
    /\ err' = SetupError(cfg)
    /\ pc' = IF SetupError(cfg) = NoErr THEN "batch" ELSE "failed"
    /\ h5_file' = IF SetupError(cfg).line = 52 THEN h5_file
                  ELSE RemoveStale(data_to_disk, h5_file)
    /\ heuristic_config' =
          IF SetupError(cfg).line \in {52, 126} THEN heuristic_config
          ELSE IF SetupError(cfg) = NoErr /\ "heuristic" \in cfg.edits.editing_source
               THEN (IF ~IsNone(cfg.edits.heuristic_config)
                     THEN cfg.edits.heuristic_config ELSE Obj(<<>>))
               ELSE None
    /\ result_stats' = IF SetupError(cfg) = NoErr THEN None ELSE result_stats
    /\ scene_i' = 0
    /\ UNCHANGED <<cfg, data_to_disk, info_has_buffer, scene_indices, start_frame_index,
                   ei, sim_scene_indices, sim_start_frames, guidance_config,
                   guidance_is_cfg, constraint_config, stats_json, cache_dirty,
                   env_reset, rollouts, repeats>>

\* lines 167-217: the head of the scene-batch loop, up to the repeat loop
BatchStep ==
    /\ pc = "batch"
    /\ IF scene_i >= cfg.num_scenes_to_evaluate
       THEN /\ pc' = "done"
            /\ UNCHANGED <<scene_i, scene_indices, start_frame_index, ei, cache_dirty,
                           env_reset, repeats>>
       ELSE \E scenes_valid \in
                 [1..Len(Slice(cfg.eval_scenes, scene_i, cfg.num_scenes_per_batch)) -> BOOLEAN] :
              LET batch == Slice(cfg.eval_scenes, scene_i, cfg.num_scenes_per_batch)
                  valid == ZipFilter(batch, scenes_valid)
              IN /\ scene_i' = scene_i + cfg.num_scenes_per_batch
                 /\ env_reset' = TRUE
                 /\ repeats' = 0
                 /\ scene_indices' = valid
                 /\ IF Len(valid) = 0
                    THEN /\ cache_dirty' = EmptyCache(TRUE)
                         /\ pc' = "batch"
                         /\ UNCHANGED <<start_frame_index, ei>>
                    ELSE /\ cache_dirty' = TRUE
                         /\ start_frame_index' = StartFrameIndex(valid, cfg.num_sim_per_scene)
                         /\ ei' = 0
                         /\ pc' = IF cfg.num_sim_per_scene > 0 THEN "sim" ELSE "post"
    /\ UNCHANGED <<cfg, data_to_disk, info_has_buffer, err, sim_scene_indices,
                   sim_start_frames, guidance_config, guidance_is_cfg, constraint_config,
                   heuristic_config, result_stats, stats_json, h5_file, rollouts>>

\* lines 218-275: one iteration of the repeat loop (use_ui is False here:
\* the UI source raised at line 137)
SimStep ==
    /\ pc = "sim"
    /\ LET src == cfg.edits.editing_source
           cur_start_frames == [s \in 1..Len(start_frame_index) |-> start_frame_index[s][ei + 1]]
           next_pc == IF ei + 1 < cfg.num_sim_per_scene THEN "sim" ELSE "post"
           cfg_gc == IF "config" \in src THEN cfg.edits.guidance_config ELSE None
           cfg_cc == IF "config" \in src THEN cfg.edits.constraint_config ELSE None
       IN \E scenes_valid \in [1..Len(scene_indices) -> BOOLEAN] :
            LET valid_scenes == ZipFilter(scene_indices, scenes_valid)
                valid_frames == ZipFilter(cur_start_frames, scenes_valid)
            IN /\ ei' = ei + 1
               /\ pc' = next_pc
               /\ IF Len(valid_scenes) = 0
                  THEN \* lines 227-229
                       /\ sim_scene_indices' = Obj(valid_scenes)
                       /\ sim_start_frames' = valid_frames
                       /\ guidance_config' = None
                       /\ guidance_is_cfg' = FALSE
                       /\ constraint_config' = None
                       /\ env_reset' = TRUE
                       /\ cache_dirty' = EmptyCache(TRUE)
                       /\ UNCHANGED repeats
                  ELSE IF "heuristic" \notin src
                  THEN \* lines 231-235
                       /\ sim_scene_indices' = Obj(valid_scenes)
                       /\ sim_start_frames' = valid_frames
                       /\ guidance_config' = cfg_gc
                       /\ guidance_is_cfg' = ("config" \in src)
                       /\ constraint_config' = cfg_cc
                       /\ env_reset' = TRUE
                       /\ cache_dirty' = TRUE
                       /\ repeats' = repeats + 1
                  ELSE \* lines 236-270
                       \E heuristic_guidance_cfg \in
                            HeuristicGuidance(heuristic_config.val, Len(valid_scenes)) :
                         LET keep == [sci \in 1..Len(valid_scenes) |->
                                         Len(heuristic_config.val) = 0
                                         \/ Len(heuristic_guidance_cfg[sci]) > 0]
                             h_cfg == ZipFilter(heuristic_guidance_cfg, keep)
                             h_scenes == ZipFilter(valid_scenes, keep)
                             h_frames == ZipFilter(valid_frames, keep)
                             merged == MergeGuidanceConfigs(cfg_gc, "config" \in src, h_cfg)
                         IN /\ sim_scene_indices' = Obj(h_scenes)
                            /\ sim_start_frames' = h_frames
                            /\ constraint_config' = cfg_cc
                            /\ env_reset' = TRUE
                            /\ IF Len(h_scenes) = 0
                               THEN \* lines 264-267
                                    /\ guidance_config' = cfg_gc
                                    /\ guidance_is_cfg' = ("config" \in src)
                                    /\ cache_dirty' = EmptyCache(TRUE)
                                    /\ UNCHANGED repeats
                               ELSE /\ guidance_config' = merged.gc
                                    /\ guidance_is_cfg' = merged.is_cfg
                                    /\ cache_dirty' = TRUE
                                    /\ repeats' = repeats + 1
    /\ UNCHANGED <<cfg, data_to_disk, info_has_buffer, err, scene_i, scene_indices,
                   start_frame_index, heuristic_config, result_stats, stats_json,
                   h5_file, rollouts>>

\* the run ends with an exception raised at a line
Raise(kind, line) ==
    /\ pc' = "failed"
    /\ err' = [kind |-> kind, line |-> line]

\* lines 276-412: after the repeat loop: skip, or roll the batch out, aggregate
\* and write its stats, dump its buffers and clear the cache
PostLoop ==
    /\ pc = "post"
    /\ IF sim_scene_indices.tag = "unbound"
       THEN \* line 276 reads a name no repeat has assigned
            /\ Raise("UnboundLocalError", 276)
            /\ UNCHANGED <<cfg, guidance_config, result_stats, stats_json, h5_file,
                           cache_dirty, rollouts>>
       ELSE IF Len(sim_scene_indices.val) = 0
       THEN \* lines 276-279
            /\ cache_dirty' = EmptyCache(cache_dirty)
            /\ pc' = "batch"
            /\ UNCHANGED <<cfg, err, guidance_config, result_stats, stats_json, h5_file,
                           rollouts>>
       ELSE IF IsNone(guidance_config)
       THEN \* line 282: len(None)
            /\ Raise("TypeError", 282)
            /\ UNCHANGED <<cfg, guidance_config, result_stats, stats_json, h5_file,
                           cache_dirty, rollouts>>
       ELSE \E raw_stats \in RolloutStats(Len(scene_indices)) :
              LET gc == ExcludeCollisionAgents(guidance_config.val)
                  \* guided_rollout reports the scenes it was given (line 329)
                  info_scene_index == scene_indices
                  stats == AggregateGuideStats(raw_stats)
                  merged == MergeStats(result_stats, stats, info_scene_index)
                  dump == DumpEpisodeBuffer(h5_file, sim_start_frames, info_scene_index)
                  dumps == data_to_disk /\ info_has_buffer
              IN /\ guidance_config' = Obj(gc)
                 /\ cfg' = IF guidance_is_cfg
                           THEN [cfg EXCEPT !.edits.guidance_config = Obj(gc)]
                           ELSE cfg
                 /\ rollouts' = Append(rollouts,
                        [ scene_i |-> scene_i,
                          scene_indices |-> scene_indices,
                          start_frames |-> sim_start_frames,
                          guidance_config |-> Obj(gc),
                          constraint_config |-> constraint_config,
                          sim_scene_indices |-> sim_scene_indices.val,
                          raw_stats |-> raw_stats,
                          stats |-> stats,
                          scene_index |-> info_scene_index,
                          has_buffer |-> info_has_buffer ])
                 /\ result_stats' = merged
                 /\ stats_json' = File(merged.val)
                 /\ h5_file' = IF dumps THEN dump.file ELSE h5_file
                 /\ IF dumps /\ ~dump.ok
                    THEN /\ Raise("ValueError", 422)
                         /\ cache_dirty' = TRUE
                    ELSE /\ cache_dirty' = EmptyCache(TRUE)
                         /\ pc' = "batch"
                         /\ err' = err
    /\ UNCHANGED <<data_to_disk, info_has_buffer, scene_i, scene_indices,
                   start_frame_index, ei, sim_scene_indices, sim_start_frames,
                   guidance_is_cfg, constraint_config, heuristic_config, env_reset, repeats>>

Next == Setup \/ BatchStep \/ SimStep \/ PostLoop

Spec == Init /\ [][Next]_vars

\* ------------------------------------------------------------ the claims
Sources == cfg.edits.editing_source

\* the guided_rollout calls made for the batch that ends at scene_i
RolloutsOfBatch == {i \in 1..Len(rollouts) : rollouts[i].scene_i = scene_i}

\* C1: the rollout is nested in the repeat loop: once a batch iteration is
\* over, guided_rollout has been called once for every repeat of that batch
\* that reached the end of the loop body with at least one scene left.
C1_RolloutPerRepeat ==
    pc \in {"batch", "done"} => Cardinality(RolloutsOfBatch) = repeats

\* C2: with editing_source = ['none'] the run does not fail for want of a
\* guidance config, and every rollout gets guidance_config = None and
\* constraint_config = None.
C2_NoneMeansNoEdits ==
    (cfg.env = "trajdata" /\ Sources = {"none"}) =>
        /\ err.kind # "TypeError"
        /\ \A i \in 1..Len(rollouts) :
              /\ IsNone(rollouts[i].guidance_config)
              /\ IsNone(rollouts[i].constraint_config)

\* C3: with eval_cfg.env in {'nusc', 'trajdata'} (and no UI source) the
\* environment is built and the scene-batch loop is reached without raising.
C3_BothEnvsSupported ==
    (cfg.env \in SupportedEnvs /\ "ui" \notin Sources /\ pc # "start") =>
        /\ pc # "failed" \/ err.line >= 167
        /\ err.line # 126

\* C4: an unsupported env (AssertionError) or a 'ui' editing source
\* (NotImplementedError, also beside 'config' or 'heuristic') ends the run
\* before the first env.reset: no rollout, no stats.json, and a failed run
\* takes no further step.
C4_NoRolloutWhenUnsupported ==
    (cfg.env \notin SupportedEnvs \/ "ui" \in Sources) =>
        /\ pc \in {"start", "failed"}
        /\ ~env_reset
        /\ rollouts = <<>>
        /\ ~stats_json.exists
        /\ pc = "failed" =>
              err.kind = IF cfg.env \notin SupportedEnvs THEN "AssertionError"
                         ELSE "NotImplementedError"

C4_FailFast ==
    /\ []C4_NoRolloutWhenUnsupported
    /\ [][pc = "failed" => pc' = "failed" /\ err' = err]_vars

C4_Witness ==
    /\ pc = "failed"
    /\ err = [kind |-> "NotImplementedError", line |-> 137]
    /\ "config" \in Sources

\* C5: run_scene_editor only reads the locked config: no step changes any
\* field reachable from eval_cfg.
C5_ConfigImmutable == [][cfg' = cfg]_vars

\* C6: whenever the scene-batch loop is back at its head (or has ended),
\* torch.cuda.empty_cache() has run since the last env.reset or rollout.
C6_CacheClearedBetweenBatches ==
    pc \in {"batch", "done"} => ~cache_dirty

C6_Witness ==
    /\ pc = "batch"
    /\ env_reset
    /\ Len(rollouts) >= 1
    /\ scene_i < cfg.num_scenes_to_evaluate

\* the concatenation, in batch order, of key k's arrays over the rollouts
RECURSIVE ConcatKey(_, _, _)
ConcatKey(log, k, i) ==
    IF i > Len(log) THEN <<>>
    ELSE (IF k \in DOMAIN log[i].stats THEN log[i].stats[k] ELSE <<>>)
         \o ConcatKey(log, k, i + 1)

RECURSIVE ConcatSceneIndex(_, _)
ConcatSceneIndex(log, i) ==
    IF i > Len(log) THEN <<>>
    ELSE log[i].scene_index \o ConcatSceneIndex(log, i + 1)

\* C7: stats.json holds the cumulative statistics: nothing is written
\* before the first rollout; after it the file equals result_stats, whose
\* keys are the stat keys of the batches rolled out so far, each the
\* concatenation in batch order of that key's arrays, and whose scene_index
\* is the concatenation of the batches' scene indices. A skipped batch adds
\* no rollout, so it changes neither.
C7_StatsCumulative ==
    /\ rollouts = <<>> => ~stats_json.exists /\ ~IsObj(result_stats)
    /\ rollouts # <<>> =>
          /\ stats_json.exists
          /\ IsObj(result_stats)
          /\ stats_json.content = result_stats.val
          /\ DOMAIN result_stats.val =
                {KSceneIndex} \cup UNION {DOMAIN rollouts[i].stats : i \in 1..Len(rollouts)}
          /\ \A k \in DOMAIN result_stats.val :
                result_stats.val[k] = IF k = KSceneIndex
                                      THEN ConcatSceneIndex(rollouts, 1)
                                      ELSE ConcatKey(rollouts, k, 1)

C7_Witness ==
    /\ Len(rollouts) = 2
    /\ KAde \in DOMAIN rollouts[1].stats
    /\ KAde \in DOMAIN rollouts[2].stats
    /\ KGuided \in DOMAIN rollouts[1].stats
    /\ KGuided \notin DOMAIN rollouts[2].stats
    /\ stats_json.exists

\* the (scene index, start frame, buffer key) triples dumped by rollout r
DumpTriples(r) ==
    IF r.has_buffer
    THEN { <<r.scene_index[j], r.start_frames[j], BufferKeys[m]>> :
             j \in 1..Min(Len(r.start_frames), Len(r.scene_index)),
             m \in 1..Len(BufferKeys) }
    ELSE {}

AllDumpTriples == UNION {DumpTriples(rollouts[i]) : i \in 1..Len(rollouts)}

RECURSIVE CountDumps(_, _)
CountDumps(log, i) ==
    IF i > Len(log) THEN 0
    ELSE Cardinality(DumpTriples(log[i])) + CountDumps(log, i + 1)

Datasets(file) == IF file.exists THEN file.content ELSE {}

\* C8: with data_to_disk a stale file is gone once setup is past its
\* assertion, and, when eval_scenes has no duplicate, no create_dataset fails
\* on an existing name, no triple is dumped twice, and the file holds
\* exactly one dataset /<scene>_<start frame>/<key> per triple dumped by
\* this run's rollouts.
C8_ExperienceFile ==
    (data_to_disk /\ pc # "start" /\ err.line # 52 /\ NoDuplicates(cfg.eval_scenes)) =>
        /\ err.line # 422
        /\ CountDumps(rollouts, 1) = Cardinality(AllDumpTriples)
        /\ Datasets(h5_file) = {H5Key(t[1], t[2], t[3]) : t \in AllDumpTriples}
        /\ Cardinality(Datasets(h5_file)) = Cardinality(AllDumpTriples)

C8_Witness ==
    /\ data_to_disk
    /\ NoDuplicates(cfg.eval_scenes)
    /\ Len(rollouts) = 2
    /\ h5_file.exists
    /\ Cardinality(h5_file.content) = 2 * Len(BufferKeys)

\* C9: the scenes passed to guided_rollout are the scenes left after the
\* validity and heuristic filters, paired one to one with the start frames.
C9_SkippedNotSimulated ==
    \A i \in 1..Len(rollouts) :
        /\ rollouts[i].scene_indices = rollouts[i].sim_scene_indices
        /\ Len(rollouts[i].scene_indices) = Len(rollouts[i].start_frames)

\* the stats keys guided_rollout returns in this model, each with its first
\* token test, guide name and scene tag
StatKeys == {KAde, KGuided, KGuideA_s0g0, KGuideA_s0g1, KGuideA_s1g0, KGuideBC_s0g1}

KeyParts ==
    [k \in StatKeys |-> [guide |-> IsGuideKey(k),
                         name |-> GuideName(k),
                         tag |-> GuideSceneTag(k)]]

\* the guide keys of raw that share k's guide name and scene tag
SameGuide(raw, k) ==
    {g \in DOMAIN raw : /\ KeyParts[g].guide
                        /\ KeyParts[g].name = KeyParts[k].name
                        /\ KeyParts[g].tag = KeyParts[k].tag}

\* <guide name>_<scene tag>g0
CanonKey == [k \in StatKeys |-> KeyParts[k].name \o <<"_">> \o KeyParts[k].tag \o <<"g", "0">>]

GuideKey(name, si, gi) ==
    <<"g","u","i","d","e","_">> \o name \o <<"_","s">> \o Str(si) \o <<"g">> \o Str(gi)

\* the array of that stat over a batch of n scenes: nan except at its scene
GuideStatArray(si, gi, n) ==
    [i \in 1..n |-> IF i - 1 = si THEN 6 * (si + gi + 1) ELSE NaN]

\* the stats of a rollout of n scenes in which the scenes in guided carry
\* two guides of the same class
GuideRolloutStats(n, guided) ==
    [k \in {KAde} \cup {GuideKey(<<"a">>, si, gi) : si \in guided, gi \in 0..1} |->
       IF k = KAde THEN [i \in 1..n |-> 6 * i]
       ELSE LET si == CHOOSE x \in guided : \E gi \in 0..1 : k = GuideKey(<<"a">>, x, gi)
                gi == CHOOSE y \in 0..1 : k = GuideKey(<<"a">>, si, y)
            IN GuideStatArray(si, gi, n)]

\* a run whose every batch holds num_scenes_per_batch valid scenes, observed
\* at the aggregation step of its first batch
InitAgg ==
    /\ cfg \in [ env : {"trajdata"},
                 edits : [ editing_source : {{"heuristic"}},
                           guidance_config : {Obj(<<>>)},
                           constraint_config : {Obj(<<"c">>)},
                           heuristic_config : {Obj(<<"h">>)} ],
                 num_scenes_per_batch : 1..MaxAggScenes,
                 num_sim_per_scene : {1},
                 num_scenes_to_evaluate : {MaxAggScenes},
                 eval_scenes : {[i \in 1..MaxAggScenes |-> i]} ]
    /\ data_to_disk = FALSE
    /\ info_has_buffer = TRUE
    /\ h5_file = NoFile
    /\ pc = "aggregate"
    /\ err = NoErr
    /\ scene_i = cfg.num_scenes_per_batch
    /\ scene_indices = [i \in 1..cfg.num_scenes_per_batch |-> i]
    /\ start_frame_index = [i \in 1..cfg.num_scenes_per_batch |-> <<HistoryNumFrames + 1>>]
    /\ ei = 1
    /\ sim_scene_indices = Obj(scene_indices)
    /\ sim_start_frames = [i \in 1..cfg.num_scenes_per_batch |-> HistoryNumFrames + 1]
    /\ guidance_config = Obj([i \in 1..cfg.num_scenes_per_batch |-> <<GuideAC, GuideGPT>>])
    /\ guidance_is_cfg = FALSE
    /\ constraint_config = None
    /\ heuristic_config = Obj(<<"h">>)
    /\ result_stats = None
    /\ stats_json = NoFile
    /\ cache_dirty = TRUE
    /\ env_reset = TRUE
    /\ rollouts = <<>>
    /\ repeats = 1

\* lines 342-361 applied to the stats of one rollout
AggregateStep ==
    /\ pc = "aggregate"
    /\ \E guided \in {g \in SUBSET (0..(cfg.num_scenes_per_batch - 1)) :
                         Cardinality(g) \in 1..2} :
         LET raw_stats == GuideRolloutStats(cfg.num_scenes_per_batch, guided)
         IN rollouts' = <<[ scene_i |-> scene_i,
                            raw_stats |-> raw_stats,
                            guide_agg_dict |-> GuideAggDict(raw_stats),
                            stats |-> AggregateGuideStats(raw_stats) ]>>
    /\ pc' = "aggregated"
    /\ UNCHANGED <<cfg, data_to_disk, info_has_buffer, err, scene_i, scene_indices,
                   start_frame_index, ei, sim_scene_indices, sim_start_frames,
                   guidance_config, guidance_is_cfg, constraint_config,
                   heuristic_config, result_stats, stats_json, h5_file, cache_dirty,
                   env_reset, repeats>>

NextAgg == AggregateStep

SpecAgg == InitAgg /\ [][NextAgg]_vars

\* the scene number each guide key of a batch was named after
SceneOfKey ==
    [k \in {GuideKey(<<"a">>, si, gi) : si \in 0..MaxAggScenes, gi \in 0..1} |->
       CHOOSE si \in 0..MaxAggScenes : \E gi \in 0..1 : k = GuideKey(<<"a">>, si, gi)]

\* C11: guide statistics are aggregated only within a scene: the guide keys
\* collected under one canonical key all belong to the same scene of the
\* batch, whatever num_scenes_per_batch is.
C11_AggregatedWithinScene ==
    \A i \in 1..Len(rollouts) :
        \A c \in DOMAIN rollouts[i].guide_agg_dict :
            \A k1, k2 \in rollouts[i].guide_agg_dict[c] :
                SceneOfKey[k1] = SceneOfKey[k2]

====
